---- MODULE Spec2Model ----
(***************************************************************************)
(* State-machine model of the Spine asset loader                           *)
(* (src/services/spineService.ts, second SpineLoaderService, lines         *)
(* 123-293) and of its file helpers (src/unnamed/part_000).                *)
(*                                                                         *)
(* A string is modelled as a sequence of tokens; a token stands for one    *)
(* character or for an indivisible run of characters ("skel", "head").     *)
(* An HTMLImageElement is identified with the index of the file it was     *)
(* created for.                                                            *)
(***************************************************************************)
EXTENDS Integers, Sequences, FiniteSets, TLC

\* ------------------------------------------------------------------ bounds
MaxFiles == 4
MaxPool == 3
MaxDistinct == 5
MaxNamed == 3
MaxTime == 1
MaxTicks == 2
MaxOverlap == 3
MaxLoads == 2

\* ------------------------------------------------------- string functions
\* String.prototype.endsWith
EndsWith(s, t) ==
    /\ Len(t) <= Len(s)
    /\ SubSeq(s, Len(s) - Len(t) + 1, Len(s)) = t

\* String.prototype.includes
Includes(s, t) ==
    \E i \in 0..(Len(s) - Len(t)) : SubSeq(s, i + 1, i + Len(t)) = t

\* String.prototype.indexOf, 1-based; 0 when t does not occur in s
IndexOf(s, t) ==
    IF Includes(s, t)
    THEN CHOOSE i \in 1..(Len(s) - Len(t) + 1) :
            /\ SubSeq(s, i, i + Len(t) - 1) = t
            /\ \A j \in 1..(i - 1) : SubSeq(s, j, j + Len(t) - 1) # t
    ELSE 0

\* s.replace(/t$/, ''): removes t when s ends with it
ReplaceAtEnd(s, t) ==
    IF EndsWith(s, t) THEN SubSeq(s, 1, Len(s) - Len(t)) ELSE s

\* s.replace(t, '') with a string pattern: removes the first occurrence of t
ReplaceFirst(s, t) ==
    LET i == IndexOf(s, t)
    IN  IF i = 0 THEN s
        ELSE SubSeq(s, 1, i - 1) \o SubSeq(s, i + Len(t), Len(s))

\* String.prototype.toLowerCase on one token
ToLowerCase(c) ==
    CASE c = "SKEL" -> "skel"
      [] c = "ATLAS" -> "atlas"
      [] c = "PNG" -> "png"
      [] c = "Idle" -> "idle"
      [] c = "IDLE" -> "idle"
      [] OTHER -> c

\* index of the last "." of a name, 0 when there is none
LastDot(s) ==
    IF \E i \in 1..Len(s) : s[i] = "."
    THEN CHOOSE i \in 1..Len(s) :
            s[i] = "." /\ \A j \in (i + 1)..Len(s) : s[j] # "."
    ELSE 0

\* getExtension: filename.split('.').pop()?.toLowerCase() || ''
getExtension(filename) ==
    LET last == SubSeq(filename, LastDot(filename) + 1, Len(filename))
    IN  [i \in 1..Len(last) |-> ToLowerCase(last[i])]

\* ------------------------------------------------------------- input files
\* A File: its name, its byte size and, for an atlas file, the page paths
\* its text declares.
File(name, size, pages) == [name |-> name, size |-> size, pages |-> pages]

Catalogue ==
    { File(<<"a", ".", "skel">>, 10, <<>>),
      File(<<"b", ".", "skel">>, 11, <<>>),
      File(<<"a", ".", "atlas">>, 20, << <<"head", ".", "png">> >>),
      File(<<"b", ".", "atlas">>, 21,
           << <<"images", "/", "body", ".", "jpg">>, <<"head">> >>),
      File(<<"head", ".", "png">>, 30, <<>>),
      File(<<"body", ".", "jpg">>, 31, <<>>) }

\* processFiles: one UploadedFile per File, in order
processFiles(raw) ==
    [i \in 1..Len(raw) |->
        [name |-> raw[i].name,
         file |-> raw[i],
         extension |-> getExtension(raw[i].name)]]

Inputs ==
    UNION { [1..n -> Catalogue] : n \in 0..MaxFiles }

\* ------------------------------------------------------------------- state
VARIABLES
    files,          \* the UploadedFile[] handed to loadSpineFromFiles
    pc,             \* where the call stands
    decode,         \* per file: state of its image decode request
    loadedImages,   \* Map name -> {img, size}, in insertion order
    cur,            \* position in skelFiles of the skeleton being assembled
    atlasFile,      \* index in files of the atlas paired with it, or 0
    resolved,       \* images resolved so far for the pages of that atlas
    path,           \* the texture-loader callback's argument
    foundData,      \* position in the pool of the callback's foundData, or 0
    loadedModels,   \* models assembled so far
    errors,         \* per-item error strings recorded so far
    result,         \* the value the call returned
    message,        \* the message of the error the call threw
    reads,          \* history: indexes of the files read so far, in order
    outcome,        \* history: per skeleton, how its processing settled
    skeleton,       \* spineRef.current.skeleton in its current pose, or Null
    debugConfig,    \* the SpineDebugConfig the ticker function closes over
    graphics,       \* what debugGraphicsRef.current holds, in drawing order
    time,           \* animation time of the current pose
    ticked,         \* history: ticks since the pose or a toggle last changed
    stale,          \* history: the last tick found the overlay non-empty
    otherFiles,     \* the files of a second, overlapping call
    otherPc,        \* where the second call stands
    otherDecode,    \* per file of the second call: state of its decode
    otherImages,    \* the loadedImages Map of the second call
    appModels,      \* App state: loadedModels
    activeModelIndex,   \* App state, counted from 0
    modelStates,    \* App state: saved ModelState per model index
    currentAnimation,   \* App state
    timeScale,      \* App state
    isLooping,      \* App state
    isLoading,      \* App state
    error,          \* App state: a SpineLoadError is shown
    inFlight        \* handleFilesLoaded calls awaiting the loader

loadVars == <<files, pc, decode, loadedImages, cur, atlasFile, resolved, path,
              foundData, loadedModels, errors, result, message, reads, outcome>>

debugVars == <<skeleton, debugConfig, graphics, time, ticked, stale>>

otherVars == <<otherFiles, otherPc, otherDecode, otherImages>>

appVars == <<appModels, activeModelIndex, modelStates, currentAnimation,
             timeScale, isLooping, isLoading, error, inFlight>>

vars == <<loadVars, debugVars, otherVars, appVars>>

\* spineRef.current before a model is mounted
Null == [null |-> TRUE]

\* the initial SpineDebugConfig of the application
Toggles ==
    {"bones", "regions", "meshHull", "meshTriangles", "clipping", "paths",
     "boundingBoxes"}

AllOff == [key \in Toggles |-> FALSE]

\* no second call is made
NoOtherCall ==
    /\ otherFiles = <<>>
    /\ otherPc = "idle"
    /\ otherDecode = <<>>
    /\ otherImages = <<>>

\* the state of App when it is first rendered, lines 19-42
NoApp ==
    /\ appModels = <<>>
    /\ activeModelIndex = 0
    /\ modelStates = <<>>
    /\ currentAnimation = <<>>
    /\ timeScale = 1
    /\ isLooping = TRUE
    /\ isLoading = FALSE
    /\ error = FALSE
    /\ inFlight = 0

\* the canvas while no model is mounted
NoOverlay ==
    /\ skeleton = Null
    /\ debugConfig = AllOff
    /\ graphics = <<>>
    /\ time = 0
    /\ ticked = 0
    /\ stale = FALSE

\* ---------------------------------------------------------- classification
Indexes(fs) == [i \in 1..Len(fs) |-> i]

IsSkel(f) == f.extension = <<"skel">>
IsAtlas(f) == f.extension = <<"atlas">>
IsImage(f) == f.extension \in {<<"png">>, <<"jpg">>, <<"jpeg">>}

\* files.filter(f => f.extension === 'skel'), as indexes into files
skelFiles(fs) == SelectSeq(Indexes(fs), LAMBDA i : IsSkel(fs[i]))

\* files.filter(f => ['png','jpg','jpeg'].includes(f.extension))
imageFiles(fs) == SelectSeq(Indexes(fs), LAMBDA i : IsImage(fs[i]))

\* skelFile.name.replace(/\.skel$/, '')
baseName(f) == ReplaceAtEnd(f.name, <<".", "skel">>)

\* files.find(f => f.extension === 'atlas' && stripped name === baseName)
findAtlas(fs, base) ==
    LET hit(i) == IsAtlas(fs[i]) /\ ReplaceAtEnd(fs[i].name, <<".", "atlas">>) = base
    IN  IF \E i \in 1..Len(fs) : hit(i)
        THEN CHOOSE i \in 1..Len(fs) : hit(i) /\ \A j \in 1..(i - 1) : ~hit(j)
        ELSE 0

\* ---------------------------------------------------------------- messages
NoSkelMessage == <<"no .skel binary file found">>
GenericMessage == <<"no model could be loaded">>
NoAtlasError(name) == <<"no .atlas matching ">> \o name
LoadFailedError(base, msg) == <<"loading model ">> \o base \o <<" failed: ">> \o msg
TextureNotFound(p) == <<"texture image not found: ">> \o p
DecodeFailure == <<"skeleton decode error">>
Undefined == <<"undefined">>

\* Array.prototype.join('\n')
RECURSIVE Join(_)
Join(lines) ==
    IF lines = <<>> THEN <<>>
    ELSE IF Len(lines) = 1 THEN lines[1]
    ELSE lines[1] \o <<"\n">> \o Join(Tail(lines))

\* variant: the throw ignores the recorded errors
ErrorMessageGeneric(errs) == GenericMessage

\* errors.join('\n') || generic message
ErrorMessage(errs) ==
    IF Join(errs) = <<>> THEN GenericMessage ELSE Join(errs)

\* --------------------------------------------------------------- the pool
\* Map.prototype.set: a new key is appended, an existing key keeps its place
MapSet(m, key, val) ==
    IF \E j \in 1..Len(m) : m[j].name = key
    THEN [j \in 1..Len(m) |-> IF m[j].name = key THEN val ELSE m[j]]
    ELSE Append(m, val)

\* a loop that breaks on its first hit: the first position of the iteration
\* whose test passed, 0 when none did
FirstHit(hits) ==
    IF \E j \in 1..Len(hits) : hits[j]
    THEN CHOOSE j \in 1..Len(hits) : hits[j] /\ \A h \in 1..(j - 1) : ~hits[h]
    ELSE 0

\* a loop without break: the last position whose test passed, 0 when none
LastHit(hits) ==
    IF \E j \in 1..Len(hits) : hits[j]
    THEN CHOOSE j \in 1..Len(hits) :
            hits[j] /\ \A h \in (j + 1)..Len(hits) : ~hits[h]
    ELSE 0

\* the test of the first loop on one key: exact match, or path ending match
ExactOrEnding(name, p) ==
    \/ name = p
    \/ EndsWith(name, p) \/ EndsWith(p, name)

\* variant: a pass of its own for the exact test, before the suffix pass
ResolveExactPassFirst(p, pool) ==
    LET exact == FirstHit([j \in 1..Len(pool) |-> pool[j].name = p])
        suffix == FirstHit([j \in 1..Len(pool) |->
                     EndsWith(pool[j].name, p) \/ EndsWith(p, pool[j].name)])
    IN  IF exact # 0 THEN exact
        ELSE IF suffix # 0 THEN suffix
        ELSE FirstHit([j \in 1..Len(pool) |-> Includes(pool[j].name, p)])

\* variant: the fuzzy test sits in the first loop with the other two
ResolveSinglePass(p, pool) ==
    FirstHit([j \in 1..Len(pool) |->
        ExactOrEnding(pool[j].name, p) \/ Includes(pool[j].name, p)])

\* variant: the loops have no break, the last match overwrites foundData
ResolveNoBreak(p, pool) ==
    LET first == LastHit([j \in 1..Len(pool) |-> ExactOrEnding(pool[j].name, p)])
    IN  IF first # 0 THEN first
        ELSE LastHit([j \in 1..Len(pool) |-> Includes(pool[j].name, p)])

\* variant: when nothing matches, the first image of the pool is taken
ResolveFallsBackToFirst(p, pool) ==
    LET first == FirstHit([j \in 1..Len(pool) |-> ExactOrEnding(pool[j].name, p)])
        fuzzy == FirstHit([j \in 1..Len(pool) |-> Includes(pool[j].name, p)])
    IN  IF first # 0 THEN first
        ELSE IF fuzzy # 0 THEN fuzzy
        ELSE IF pool # <<>> THEN 1 ELSE 0

\* the texture-loader callback's search: position of foundData, 0 when none
Resolve(p, pool) ==
    LET first == FirstHit([j \in 1..Len(pool) |-> ExactOrEnding(pool[j].name, p)])
    IN  IF first # 0 THEN first
        ELSE FirstHit([j \in 1..Len(pool) |-> Includes(pool[j].name, p)])

\* variant: the await resumes on the first settled decode (Promise.race)
AnySettled(d) == \E i \in DOMAIN d : d[i] \in {"loaded", "failed"}

\* Promise.all over the decode promises is fulfilled
AllSettled(d) == \A i \in DOMAIN d : d[i] # "pending"

\* ------------------------------------------------------------------- Init
Init ==
    /\ files \in { processFiles(raw) : raw \in Inputs }
    /\ pc = "idle"
    /\ decode = [i \in DOMAIN files |-> "none"]
    /\ loadedImages = <<>>
    /\ cur = 0
    /\ atlasFile = 0
    /\ resolved = <<>>
    /\ path = <<>>
    /\ foundData = 0
    /\ loadedModels = <<>>
    /\ errors = <<>>
    /\ result = <<>>
    /\ message = <<>>
    /\ reads = <<>>
    /\ outcome = [k \in DOMAIN skelFiles(files) |-> "pending"]
    /\ NoOverlay
    /\ NoOtherCall
    /\ NoApp

\* ------------------------------------------------------ the per-item loop
SkelAt(k) == files[skelFiles(files)[k]]

\* the loop from position k up to its next suspension: skeletons without an
\* atlas are recorded and skipped
RECURSIVE Advance(_, _)
Advance(k, errs) ==
    IF k > Len(skelFiles(files)) THEN [cur |-> k, errors |-> errs]
    ELSE IF findAtlas(files, baseName(SkelAt(k))) = 0
    THEN Advance(k + 1, Append(errs, NoAtlasError(SkelAt(k).name)))
    ELSE [cur |-> k, errors |-> errs]

\* variant: the loop does not await, every remaining atlas read is started
ContinueStartsAll(k, models, errs, oc) ==
    LET adv == Advance(k, errs)
        rest == SelectSeq([n \in 1..(Len(skelFiles(files)) + 1 - adv.cur) |->
                              adv.cur + n - 1],
                          LAMBDA j : findAtlas(files, baseName(SkelAt(j))) # 0)
    IN  /\ cur' = adv.cur
        /\ errors' = adv.errors
        /\ loadedModels' = models
        /\ resolved' = <<>>
        /\ outcome' = [j \in DOMAIN oc |->
                          IF j >= k /\ j < adv.cur THEN "noAtlas" ELSE oc[j]]
        /\ IF adv.cur <= Len(skelFiles(files))
           THEN /\ atlasFile' = findAtlas(files, baseName(SkelAt(adv.cur)))
                /\ reads' = reads \o [n \in 1..Len(rest) |->
                                        findAtlas(files, baseName(SkelAt(rest[n])))]
                /\ pc' = "readAtlas"
                /\ UNCHANGED <<result, message>>
           ELSE /\ atlasFile' = 0
                /\ UNCHANGED reads
                /\ IF models = <<>>
                   THEN pc' = "failed" /\ message' = ErrorMessage(adv.errors)
                        /\ UNCHANGED result
                   ELSE pc' = "returned" /\ result' = models
                        /\ UNCHANGED message

\* lines 165-187 resumed at position k with the given lists
Continue(k, models, errs, oc) ==
    LET adv == Advance(k, errs)
    IN  /\ cur' = adv.cur
        /\ errors' = adv.errors
        /\ loadedModels' = models
        /\ resolved' = <<>>
        /\ outcome' = [j \in DOMAIN oc |->
                          IF j >= k /\ j < adv.cur THEN "noAtlas" ELSE oc[j]]
        /\ IF adv.cur <= Len(skelFiles(files))
           THEN /\ atlasFile' = findAtlas(files, baseName(SkelAt(adv.cur)))
                /\ reads' = Append(reads, atlasFile')
                /\ pc' = "readAtlas"
                /\ UNCHANGED <<result, message>>
           ELSE /\ atlasFile' = 0
                /\ UNCHANGED reads
                /\ IF models = <<>>
                   THEN pc' = "failed" /\ message' = ErrorMessage(adv.errors)
                        /\ UNCHANGED result
                   ELSE pc' = "returned" /\ result' = models
                        /\ UNCHANGED message

\* variant: no try/catch around the await, the rejection leaves the loop
RejectedEscapes(msg) ==
    /\ pc' = "failed"
    /\ message' = msg
    /\ outcome' = [outcome EXCEPT ![cur] = "failed"]
    /\ UNCHANGED <<cur, atlasFile, resolved, loadedModels, errors, result,
                   reads>>

\* variant: the catch records nothing
RejectedSilently(msg) ==
    Continue(cur + 1, loadedModels, errors,
             [outcome EXCEPT ![cur] = "failed"])

\* catch (err): errors.push(...), then the loop goes on
Rejected(msg) ==
    Continue(cur + 1, loadedModels,
             Append(errors, LoadFailedError(baseName(SkelAt(cur)), msg)),
             [outcome EXCEPT ![cur] = "failed"])

\* variant: loadedModels.unshift(model)
FulfilledUnshift(model) ==
    Continue(cur + 1, <<model>> \o loadedModels, errors,
             [outcome EXCEPT ![cur] = "model"])

\* loadedModels.push(model), then the loop goes on
Fulfilled(model) ==
    Continue(cur + 1, Append(loadedModels, model), errors,
             [outcome EXCEPT ![cur] = "model"])

\* ---------------------------------------------------------------- actions
\* variant: the decodes are requested before the skeleton check
LoadSpineFromFilesLateCheck ==
    /\ pc = "idle"
    /\ decode' = [i \in DOMAIN files |->
                    IF IsImage(files[i]) THEN "pending" ELSE "none"]
    /\ IF skelFiles(files) = <<>>
       THEN pc' = "failed" /\ message' = NoSkelMessage
       ELSE pc' = "preload" /\ UNCHANGED message
    /\ UNCHANGED <<appVars, otherVars, debugVars, files, loadedImages, cur, atlasFile, resolved, path,
                   foundData, loadedModels, errors, result, reads, outcome>>

\* loadSpineFromFiles up to its first suspension
LoadSpineFromFiles ==
    /\ pc = "idle"
    /\ IF skelFiles(files) = <<>>
       THEN /\ pc' = "failed"
            /\ message' = NoSkelMessage
            /\ UNCHANGED decode
       ELSE /\ pc' = "preload"
            /\ decode' = [i \in DOMAIN files |->
                            IF IsImage(files[i]) THEN "pending" ELSE "none"]
            /\ UNCHANGED message
    /\ UNCHANGED <<appVars, otherVars, debugVars, files, loadedImages, cur, atlasFile, resolved, path,
                   foundData, loadedModels, errors, result, reads, outcome>>

\* img.onload
ImgOnload(i) ==
    /\ decode[i] = "pending"
    /\ decode' = [decode EXCEPT ![i] = "loaded"]
    /\ loadedImages' = MapSet(loadedImages, files[i].name,
                              [name |-> files[i].name, img |-> i,
                               size |-> files[i].file.size])
    /\ UNCHANGED <<appVars, otherVars, debugVars, files, pc, cur, atlasFile, resolved, path, foundData,
                   loadedModels, errors, result, message, reads, outcome>>

\* variant: onerror rejects, as in the single-model loader (line 42)
ImgOnerrorRejects(i) ==
    /\ decode[i] = "pending"
    /\ decode' = [decode EXCEPT ![i] = "failed"]
    /\ pc' = "failed"
    /\ message' = <<"Failed to load texture image: ">> \o files[i].name
    /\ UNCHANGED <<appVars, otherVars, debugVars, files, loadedImages, cur, atlasFile, resolved, path,
                   foundData, loadedModels, errors, result, reads, outcome>>

\* img.onerror
ImgOnerror(i) ==
    /\ decode[i] = "pending"
    /\ decode' = [decode EXCEPT ![i] = "failed"]
    /\ UNCHANGED <<appVars, otherVars, debugVars, files, pc, loadedImages, cur, atlasFile, resolved, path,
                   foundData, loadedModels, errors, result, message, reads,
                   outcome>>

\* the await of Promise.all resumes
PreloadSettled ==
    /\ pc = "preload"
    /\ AllSettled(decode)
    /\ Continue(1, <<>>, <<>>, outcome)
    /\ UNCHANGED <<appVars, otherVars, debugVars, files, decode, loadedImages, path, foundData>>

\* readFileAsText: reader.onload
AtlasOnload ==
    /\ pc = "readAtlas"
    /\ pc' = "parseAtlas"
    /\ resolved' = <<>>
    /\ UNCHANGED <<appVars, otherVars, debugVars, files, decode, loadedImages, cur, atlasFile, path,
                   foundData, loadedModels, errors, result, message, reads,
                   outcome>>

\* readFileAsText: reader.onerror rejects with the event, which has no message
AtlasOnerror ==
    /\ pc = "readAtlas"
    /\ Rejected(Undefined)
    /\ UNCHANGED <<appVars, otherVars, debugVars, files, decode, loadedImages, path, foundData>>

\* variant: a texture that is not found makes the callback return without
\* rejecting
TextureLoaderNoReject ==
    /\ pc = "parseAtlas"
    /\ Len(resolved) < Len(files[atlasFile].file.pages)
    /\ path' = files[atlasFile].file.pages[Len(resolved) + 1]
    /\ foundData' = Resolve(path', loadedImages)
    /\ IF foundData' = 0
       THEN UNCHANGED <<pc, cur, atlasFile, resolved, loadedModels, errors,
                        result, message, reads, outcome>>
       ELSE /\ resolved' = Append(resolved, loadedImages[foundData'].img)
            /\ UNCHANGED <<pc, cur, atlasFile, loadedModels, errors,
                           result, message, reads, outcome>>
    /\ UNCHANGED <<appVars, otherVars, debugVars, files, decode, loadedImages>>

\* the texture-loader callback, called for the next page of the atlas
TextureLoader ==
    /\ pc = "parseAtlas"
    /\ Len(resolved) < Len(files[atlasFile].file.pages)
    /\ path' = files[atlasFile].file.pages[Len(resolved) + 1]
    /\ foundData' = Resolve(path', loadedImages)
    /\ IF foundData' = 0
       THEN Rejected(TextureNotFound(path'))
       ELSE /\ resolved' = Append(resolved, loadedImages[foundData'].img)
            /\ UNCHANGED <<pc, cur, atlasFile, loadedModels, errors,
                           result, message, reads, outcome>>
    /\ UNCHANGED <<appVars, otherVars, debugVars, files, decode, loadedImages>>

\* variant: the parser goes past a page without waiting for its texture
AtlasLoadedEarly ==
    /\ pc = "parseAtlas"
    /\ Len(resolved) <= Len(files[atlasFile].file.pages)
    /\ pc' = "readSkel"
    /\ reads' = Append(reads, skelFiles(files)[cur])
    /\ UNCHANGED <<appVars, otherVars, debugVars, files, decode, loadedImages, cur, atlasFile, resolved,
                   path, foundData, loadedModels, errors, result, message,
                   outcome>>

\* the atlas-loaded callback: the skeleton file is read
AtlasLoaded ==
    /\ pc = "parseAtlas"
    /\ Len(resolved) = Len(files[atlasFile].file.pages)
    /\ pc' = "readSkel"
    /\ reads' = Append(reads, skelFiles(files)[cur])
    /\ UNCHANGED <<appVars, otherVars, debugVars, files, decode, loadedImages, cur, atlasFile, resolved,
                   path, foundData, loadedModels, errors, result, message,
                   outcome>>

\* size lookup by image identity over loadedImages.values()
SizeOf(img) ==
    LET j == FirstHit([h \in 1..Len(loadedImages) |-> loadedImages[h].img = img])
    IN  IF j = 0 THEN 0 ELSE loadedImages[j].size

\* the SpineModel resolved by loadSingleSpine; hasSource[p] tells whether
\* page p passes the guard of line 256 (its texture exposes a source image);
\* img stands for that source, from which width and height are read
Model(hasSource) ==
    [name |-> ReplaceFirst(SkelAt(cur).name, <<".", "skel">>),
     spine |-> skelFiles(files)[cur],
     textureInfo |->
        LET kept == SelectSeq(Indexes(resolved), LAMBDA p : hasSource[p])
        IN  [q \in 1..Len(kept) |->
                [name |-> files[atlasFile].file.pages[kept[q]],
                 img |-> resolved[kept[q]],
                 size |-> SizeOf(resolved[kept[q]])]]]

\* readFileAsArrayBuffer: reader.onload, then readSkeletonData
SkelOnload ==
    /\ pc = "readSkel"
    /\ \E ok \in BOOLEAN, hasSource \in [DOMAIN resolved -> BOOLEAN] :
          IF ok THEN Fulfilled(Model(hasSource)) ELSE Rejected(DecodeFailure)
    /\ UNCHANGED <<appVars, otherVars, debugVars, files, decode, loadedImages, path, foundData>>

\* readFileAsArrayBuffer: reader.onerror
SkelOnerror ==
    /\ pc = "readSkel"
    /\ Rejected(Undefined)
    /\ UNCHANGED <<appVars, otherVars, debugVars, files, decode, loadedImages, path, foundData>>

Next ==
    \/ LoadSpineFromFiles
    \/ \E i \in DOMAIN files : ImgOnload(i)
    \/ \E i \in DOMAIN files : ImgOnerror(i)
    \/ PreloadSettled
    \/ AtlasOnload
    \/ AtlasOnerror
    \/ TextureLoader
    \/ AtlasLoaded
    \/ SkelOnload
    \/ SkelOnerror

Spec == Init /\ [][Next]_vars

\* every decode signals load or error, every read signals success or
\* failure, the atlas parser goes on to its next page or to its end, and the
\* call itself runs when it can
Fairness ==
    /\ WF_vars(LoadSpineFromFiles)
    /\ \A i \in 1..MaxFiles :
          WF_vars(i \in DOMAIN files /\ (ImgOnload(i) \/ ImgOnerror(i)))
    /\ WF_vars(PreloadSettled)
    /\ WF_vars(AtlasOnload \/ AtlasOnerror)
    /\ WF_vars(TextureLoader \/ AtlasLoaded)
    /\ WF_vars(SkelOnload \/ SkelOnerror)

SpecLive == Init /\ [][Next]_vars /\ Fairness

\* ------------------------------------- batches of pairwise distinct files
\* every ordering of every set of at most MaxDistinct files of the catalogue
DistinctInputs ==
    UNION { { raw \in [1..n -> Catalogue] :
                \A x, y \in 1..n : x # y => raw[x] # raw[y] } :
            n \in 0..MaxDistinct }

InitDistinct ==
    /\ files \in { processFiles(raw) : raw \in DistinctInputs }
    /\ pc = "idle"
    /\ decode = [i \in DOMAIN files |-> "none"]
    /\ loadedImages = <<>>
    /\ cur = 0
    /\ atlasFile = 0
    /\ resolved = <<>>
    /\ path = <<>>
    /\ foundData = 0
    /\ loadedModels = <<>>
    /\ errors = <<>>
    /\ result = <<>>
    /\ message = <<>>
    /\ reads = <<>>
    /\ outcome = [k \in DOMAIN skelFiles(files) |-> "pending"]
    /\ NoOverlay
    /\ NoOtherCall
    /\ NoApp

SpecDistinct == InitDistinct /\ [][Next]_vars

\* ------------------------------------------- batches of unusual file names
NameCatalogue ==
    { File(<<"a", ".", "skel">>, 10, <<>>),
      File(<<"a", ".", "SKEL">>, 12, <<>>),
      File(<<"a", ".", "skel", ".", "v2", ".", "skel">>, 13, <<>>),
      File(<<"a", ".", "atlas">>, 20, << <<"head", ".", "png">> >>),
      File(<<"a", ".", "skel", ".", "v2", ".", "atlas">>, 23,
           << <<"head", ".", "png">> >>),
      File(<<"a", "b", ".", "atlas">>, 24, << <<"head", ".", "png">> >>),
      File(<<"head", ".", "png">>, 30, <<>>) }

NameInputs ==
    UNION { [1..n -> NameCatalogue] : n \in 0..MaxNamed }

InitNames ==
    /\ files \in { processFiles(raw) : raw \in NameInputs }
    /\ pc = "idle"
    /\ decode = [i \in DOMAIN files |-> "none"]
    /\ loadedImages = <<>>
    /\ cur = 0
    /\ atlasFile = 0
    /\ resolved = <<>>
    /\ path = <<>>
    /\ foundData = 0
    /\ loadedModels = <<>>
    /\ errors = <<>>
    /\ result = <<>>
    /\ message = <<>>
    /\ reads = <<>>
    /\ outcome = [k \in DOMAIN skelFiles(files) |-> "pending"]
    /\ NoOverlay
    /\ NoOtherCall
    /\ NoApp

SpecNames == InitNames /\ [][Next]_vars

\* ------------------------------------------------- two overlapping calls
\* The second call is followed as far as it writes to a pool: its decode
\* requests and its barrier. The Image objects of the second call are
\* numbered below zero, those of the first by their index in files.
OverlapCatalogue ==
    { File(<<"a", ".", "skel">>, 10, <<>>),
      File(<<"a", ".", "atlas">>, 20, << <<"head", ".", "png">> >>),
      File(<<"head", ".", "png">>, 30, <<>>),
      File(<<"body", ".", "jpg">>, 31, <<>>) }

OverlapInputs ==
    UNION { [1..n -> OverlapCatalogue] : n \in 0..MaxOverlap }

\* the batch of the second call: another head.png among its files
OtherBatch ==
    << File(<<"b", ".", "skel">>, 11, <<>>),
       File(<<"head", ".", "png">>, 32, <<>>),
       File(<<"body", ".", "jpg">>, 33, <<>>) >>

InitOverlap ==
    /\ files \in { processFiles(raw) : raw \in OverlapInputs }
    /\ pc = "idle"
    /\ decode = [i \in DOMAIN files |-> "none"]
    /\ loadedImages = <<>>
    /\ cur = 0
    /\ atlasFile = 0
    /\ resolved = <<>>
    /\ path = <<>>
    /\ foundData = 0
    /\ loadedModels = <<>>
    /\ errors = <<>>
    /\ result = <<>>
    /\ message = <<>>
    /\ reads = <<>>
    /\ outcome = [k \in DOMAIN skelFiles(files) |-> "pending"]
    /\ NoOverlay
    /\ otherFiles = processFiles(OtherBatch)
    /\ otherPc = "idle"
    /\ otherDecode = [i \in DOMAIN otherFiles |-> "none"]
    /\ otherImages = <<>>
    /\ NoApp

\* the second call up to its first suspension, lines 137-159
OtherLoadSpineFromFiles ==
    /\ otherPc = "idle"
    /\ IF skelFiles(otherFiles) = <<>>
       THEN otherPc' = "failed" /\ UNCHANGED otherDecode
       ELSE /\ otherPc' = "preload"
            /\ otherDecode' = [i \in DOMAIN otherFiles |->
                                 IF IsImage(otherFiles[i]) THEN "pending"
                                 ELSE "none"]
    /\ UNCHANGED <<appVars, debugVars, loadVars, otherFiles, otherImages>>

\* variant: the Map is shared by all calls
OtherImgOnloadShared(i) ==
    /\ otherDecode[i] = "pending"
    /\ otherDecode' = [otherDecode EXCEPT ![i] = "loaded"]
    /\ loadedImages' = MapSet(loadedImages, otherFiles[i].name,
                              [name |-> otherFiles[i].name, img |-> 0 - i,
                               size |-> otherFiles[i].file.size])
    /\ UNCHANGED <<appVars, debugVars, otherFiles, otherPc, otherImages>>
    /\ UNCHANGED <<files, pc, decode, cur, atlasFile, resolved, path, foundData,
                   loadedModels, errors, result, message, reads, outcome>>

\* img.onload in the second call: the entry goes to the Map of that call
OtherImgOnload(i) ==
    /\ otherDecode[i] = "pending"
    /\ otherDecode' = [otherDecode EXCEPT ![i] = "loaded"]
    /\ otherImages' = MapSet(otherImages, otherFiles[i].name,
                             [name |-> otherFiles[i].name, img |-> 0 - i,
                              size |-> otherFiles[i].file.size])
    /\ UNCHANGED <<appVars, debugVars, loadVars, otherFiles, otherPc>>

\* img.onerror in the second call
OtherImgOnerror(i) ==
    /\ otherDecode[i] = "pending"
    /\ otherDecode' = [otherDecode EXCEPT ![i] = "failed"]
    /\ UNCHANGED <<appVars, debugVars, loadVars, otherFiles, otherPc,
                   otherImages>>

\* the await of Promise.all resumes in the second call
OtherPreloadSettled ==
    /\ otherPc = "preload"
    /\ AllSettled(otherDecode)
    /\ otherPc' = "assembling"
    /\ UNCHANGED <<appVars, debugVars, loadVars, otherFiles, otherDecode,
                   otherImages>>

NextOverlap ==
    \/ Next
    \/ OtherLoadSpineFromFiles
    \/ \E i \in DOMAIN otherFiles : OtherImgOnload(i)
    \/ \E i \in DOMAIN otherFiles : OtherImgOnerror(i)
    \/ OtherPreloadSettled

SpecOverlap == InitOverlap /\ [][NextOverlap]_vars

\* ----------------------------------------------------- the debug overlay
\* Coordinates of the overlay are kept in half pixels, so that the arm of
\* the X of a zero-length bone, radius * 0.5, is a whole number.
H(x) == 2 * x

Bone(worldX, worldY, a, c, length) ==
    [worldX |-> worldX, worldY |-> worldY, a |-> a, c |-> c,
     data |-> [length |-> length]]

NoAttachment == [kind |-> "none"]

\* vertices are the attachment's own; hullLength and triangles matter for a
\* mesh only, closed for a path only
Attachment(kind, vertices, hullLength, triangles, closed) ==
    [kind |-> kind, vertices |-> vertices, hullLength |-> hullLength,
     triangles |-> triangles, closed |-> closed]

Slot(bone, attachment) == [bone |-> bone, attachment |-> attachment]

\* the skeleton at animation time t: bones with a length, without one, with
\* a degenerate scale and with a negative length, and a slot of every kind
Pose(t) ==
    [bones |-> << Bone(t, 0, 1, 0, 0),
                  Bone(2 + t, 1, 0, 1, 3),
                  Bone(4, t, 0, 0, 2),
                  Bone(1, 1 + t, -1, 0, -1) >>,
     slots |-> <<
        Slot(1, NoAttachment),
        Slot(2, Attachment("region", <<0, 0, 2, 0, 2, 1, 0, 1>>, 0, <<>>, FALSE)),
        Slot(1, Attachment("mesh", <<0, 0, 3, 0, 3, 3, 0, 3>>, 3,
                           <<0, 1, 2, 0, 2, 3>>, FALSE)),
        Slot(2, Attachment("mesh", <<1, 1, 2, 1, 1, 2>>, 0, <<0, 1, 2>>, FALSE)),
        Slot(1, Attachment("clipping", <<0, 0, 5, 0, 0, 5>>, 0, <<>>, FALSE)),
        Slot(2, Attachment("path", <<0, 0, 1, 2>>, 0, <<>>, FALSE)),
        Slot(1, Attachment("path", <<0, 0, 1, 2, 2, 0>>, 0, <<>>, TRUE)),
        Slot(2, Attachment("boundingBox", <<0, 0, 4, 0, 4, 4>>, 0, <<>>, FALSE)),
        Slot(1, Attachment("point", <<1, 1>>, 0, <<>>, FALSE)) >> ]

\* computeWorldVertices: the attachment's vertices carried to world space by
\* the slot's bone, as a flat array x0, y0, x1, y1, ... in half pixels
computeWorldVertices(sk, slot) ==
    LET bone == sk.bones[slot.bone]
        v == slot.attachment.vertices
    IN  [n \in 1..Len(v) |->
            IF n % 2 = 1 THEN H(v[n] + bone.worldX) ELSE H(v[n] + bone.worldY)]

\* the point held at positions i and i + 1 of a flat array, i counted from 0
At(worldVertices, i) == <<worldVertices[i + 1], worldVertices[i + 2]>>

\* a path drawn by moveTo and lineTo, and a circle; item is the bone or the
\* slot the shape was drawn for
Poly(color, points, closed, fill, item) ==
    [shape |-> "poly", color |-> color, points |-> points, radius |-> 0,
     closed |-> closed, fill |-> fill, item |-> item]

Circle(color, centre, radius, fill, item) ==
    [shape |-> "circle", color |-> color, points |-> <<centre>>,
     radius |-> H(radius), closed |-> TRUE, fill |-> fill, item |-> item]

RECURSIVE Flatten(_)
Flatten(ss) ==
    IF ss = <<>> THEN <<>> ELSE Head(ss) \o Flatten(Tail(ss))

\* Math.sqrt, on the perfect squares the poses give it
Sqrt(n) == CHOOSE r \in 0..n : r * r = n

boneColor == 65535

\* one bone of the loop of lines 286-355
DrawBone(sk, b) ==
    LET bone == sk.bones[b]
        x == H(bone.worldX)
        y == H(bone.worldY)
        len == bone.data.length
        item == <<"bone", b>>
    IN  IF len > 0
        THEN LET a == bone.a
                 c == bone.c
                 tip == <<x + H(len * a), y + H(len * c)>>
                 scale == Sqrt(a * a + c * c)
                 boneBaseWidth == 8
                 perX == IF scale > 0
                         THEN (0 - (c \div scale)) * H(boneBaseWidth \div 2) ELSE 0
                 perY == IF scale > 0
                         THEN (a \div scale) * H(boneBaseWidth \div 2) ELSE 0
                 b1 == <<x + perX, y + perY>>
                 b2 == <<x - perX, y - perY>>
             IN  << Poly(boneColor, <<b1, tip, b2>>, TRUE, TRUE, item),
                    Poly(boneColor, << <<x, y>>, tip >>, FALSE, FALSE, item),
                    Circle(boneColor, <<x, y>>, 3, TRUE, item) >>
        ELSE LET radius == 5
                 d == radius
             IN  << Circle(boneColor, <<x, y>>, radius, TRUE, item),
                    Poly(boneColor, << <<x - d, y - d>>, <<x + d, y + d>> >>,
                         FALSE, FALSE, item),
                    Poly(boneColor, << <<x + d, y - d>>, <<x - d, y + d>> >>,
                         FALSE, FALSE, item) >>

\* the points of a whole flat array, in order
Outline(worldVertices) ==
    [n \in 1..(Len(worldVertices) \div 2) |-> At(worldVertices, 2 * (n - 1))]

DrawRegionUnconditionally(sk, s, config) ==
    LET worldVertices == computeWorldVertices(sk, sk.slots[s])
    IN  << Poly(16746496,
                << At(worldVertices, 0), At(worldVertices, 2),
                   At(worldVertices, 4), At(worldVertices, 6),
                   At(worldVertices, 0) >>,
                TRUE, FALSE, <<"slot", s>>) >>

\* lines 367-380
DrawRegion(sk, s, config) ==
    IF config.regions
    THEN LET worldVertices == computeWorldVertices(sk, sk.slots[s])
         IN  << Poly(16746496,
                     << At(worldVertices, 0), At(worldVertices, 2),
                        At(worldVertices, 4), At(worldVertices, 6),
                        At(worldVertices, 0) >>,
                     TRUE, FALSE, <<"slot", s>>) >>
    ELSE <<>>

\* variant: the hull runs over every computed vertex, and the wireframe is
\* drawn only inside the hull branch
DrawMeshNested(sk, s, config) ==
    LET attachment == sk.slots[s].attachment
        worldVertices == computeWorldVertices(sk, sk.slots[s])
        triangles == attachment.triangles
        hull == << Poly(16776960,
                        Outline(worldVertices) \o <<At(worldVertices, 0)>>,
                        FALSE, TRUE, <<"slot", s>>) >>
        wire == [n \in 1..(Len(triangles) \div 3) |->
                    LET i == 3 * (n - 1)
                    IN  Poly(16711935,
                             << At(worldVertices, triangles[i + 1] * 2),
                                At(worldVertices, triangles[i + 2] * 2),
                                At(worldVertices, triangles[i + 3] * 2),
                                At(worldVertices, triangles[i + 1] * 2) >>,
                             FALSE, FALSE, <<"slot", s>>)]
    IN  IF config.meshHull
        THEN hull \o (IF config.meshTriangles THEN wire ELSE <<>>)
        ELSE <<>>

\* lines 383-429
DrawMesh(sk, s, config) ==
    LET attachment == sk.slots[s].attachment
        worldVertices == computeWorldVertices(sk, sk.slots[s])
        hullLength == attachment.hullLength
        triangles == attachment.triangles
        hull ==
            IF config.meshHull /\ hullLength > 0
            THEN << Poly(16776960,
                         [n \in 1..(hullLength + 1) |->
                            IF n <= hullLength
                            THEN At(worldVertices, (n - 1) * 2)
                            ELSE At(worldVertices, 0)],
                         FALSE, TRUE, <<"slot", s>>) >>
            ELSE <<>>
        wire ==
            IF config.meshTriangles
            THEN [n \in 1..((Len(triangles) + 2) \div 3) |->
                    LET i == 3 * (n - 1)
                        t1 == triangles[i + 1] * 2
                        t2 == triangles[i + 2] * 2
                        t3 == triangles[i + 3] * 2
                    IN  Poly(16711935,
                             << At(worldVertices, t1), At(worldVertices, t2),
                                At(worldVertices, t3), At(worldVertices, t1) >>,
                             FALSE, FALSE, <<"slot", s>>)]
            ELSE <<>>
    IN  hull \o wire

\* lines 432-446
DrawClipping(sk, s, config) ==
    IF config.clipping
    THEN << Poly(13369344, Outline(computeWorldVertices(sk, sk.slots[s])),
                 TRUE, TRUE, <<"slot", s>>) >>
    ELSE <<>>

\* lines 449-470
DrawPath(sk, s, config) ==
    IF config.paths
    THEN LET attachment == sk.slots[s].attachment
             points == Outline(computeWorldVertices(sk, sk.slots[s]))
         IN  << Poly(255, points, attachment.closed, FALSE, <<"slot", s>>) >>
             \o [n \in 1..Len(points) |->
                    Circle(255, points[n], 3, TRUE, <<"slot", s>>)]
    ELSE <<>>

\* lines 473-487
DrawBoundingBox(sk, s, config) ==
    IF config.boundingBoxes
    THEN << Poly(65280, Outline(computeWorldVertices(sk, sk.slots[s])),
                 TRUE, TRUE, <<"slot", s>>) >>
    ELSE <<>>

\* one slot of the loop of lines 362-488
DrawSlot(sk, s, config) ==
    LET kind == sk.slots[s].attachment.kind
    IN  IF kind = "none" THEN <<>>
        ELSE IF kind = "region" THEN DrawRegion(sk, s, config)
        ELSE IF kind = "mesh" THEN DrawMesh(sk, s, config)
        ELSE IF kind = "clipping" THEN DrawClipping(sk, s, config)
        ELSE IF kind = "path" THEN DrawPath(sk, s, config)
        ELSE IF kind = "boundingBox" THEN DrawBoundingBox(sk, s, config)
        ELSE <<>>

\* variant: what was drawn is kept until the overlay is emptied
renderDebugCached(sk, gfx, config) ==
    IF gfx # <<>> THEN gfx
    ELSE LET bones == IF config.bones
                      THEN Flatten([b \in 1..Len(sk.bones) |-> DrawBone(sk, b)])
                      ELSE <<>>
             slots == Flatten([s \in 1..Len(sk.slots) |->
                                 DrawSlot(sk, s, config)])
         IN  bones \o slots

renderDebugOnTop(sk, gfx, config) ==
    LET bones == IF config.bones
                 THEN Flatten([b \in 1..Len(sk.bones) |-> DrawBone(sk, b)])
                 ELSE <<>>
        slots == Flatten([s \in 1..Len(sk.slots) |-> DrawSlot(sk, s, config)])
    IN  gfx \o bones \o slots

\* renderDebug: what graphics gfx holds after the call, under the config the
\* closure sees
renderDebug(sk, gfx, config) ==
    LET cleared == <<>>
        bones == IF config.bones
                 THEN Flatten([b \in 1..Len(sk.bones) |-> DrawBone(sk, b)])
                 ELSE <<>>
        slots == Flatten([s \in 1..Len(sk.slots) |-> DrawSlot(sk, s, config)])
    IN  cleared \o bones \o slots

hasDebug == \E key \in Toggles : debugConfig[key]

tickerFuncKeepsOverlay ==
    /\ skeleton # Null
    /\ graphics' = IF hasDebug
                   THEN renderDebug(skeleton, graphics, debugConfig)
                   ELSE graphics
    /\ ticked' = IF ticked < MaxTicks THEN ticked + 1 ELSE ticked
    /\ stale' = (graphics # <<>>)
    /\ UNCHANGED <<appVars, otherVars, loadVars, skeleton, debugConfig, time>>

\* one tick of the ticker function installed for the current debugConfig
tickerFunc ==
    /\ skeleton # Null
    /\ graphics' = IF hasDebug
                   THEN renderDebug(skeleton, graphics, debugConfig)
                   ELSE <<>>
    /\ ticked' = IF ticked < MaxTicks THEN ticked + 1 ELSE ticked
    /\ stale' = (graphics # <<>>)
    /\ UNCHANGED <<appVars, otherVars, loadVars, skeleton, debugConfig, time>>

\* a click on one switch of the debug panel; the canvas re-renders and
\* installs a ticker function closing over the new config
toggleDebug(key) ==
    /\ debugConfig' = [debugConfig EXCEPT ![key] = ~debugConfig[key]]
    /\ ticked' = 0
    /\ UNCHANGED <<appVars, otherVars, loadVars, skeleton, graphics, time, stale>>

\* the animation state moves the skeleton to its next pose
Animate ==
    /\ skeleton # Null
    /\ time < MaxTime
    /\ time' = time + 1
    /\ skeleton' = Pose(time')
    /\ ticked' = 0
    /\ UNCHANGED <<appVars, otherVars, loadVars, debugConfig, graphics, stale>>

\* a model has just been mounted: lines 517-524
InitDebug ==
    /\ files = <<>>
    /\ pc = "idle"
    /\ decode = <<>>
    /\ loadedImages = <<>>
    /\ cur = 0
    /\ atlasFile = 0
    /\ resolved = <<>>
    /\ path = <<>>
    /\ foundData = 0
    /\ loadedModels = <<>>
    /\ errors = <<>>
    /\ result = <<>>
    /\ message = <<>>
    /\ reads = <<>>
    /\ outcome = <<>>
    /\ skeleton = Pose(0)
    /\ debugConfig = AllOff
    /\ graphics = <<>>
    /\ time = 0
    /\ ticked = 0
    /\ stale = FALSE
    /\ NoOtherCall
    /\ NoApp

NextDebug ==
    \/ tickerFunc
    \/ \E key \in Toggles : toggleDebug(key)
    \/ Animate

SpecDebug == InitDebug /\ [][NextDebug]_vars

\* -------------------------------------------------------- the application
\* the part of a SpineModel that App reads
AppModel(name, animations) == [name |-> name, animations |-> animations]

hero == AppModel(<<"hero">>, << <<"walk">>, <<"idle", "_", "loop">> >>)
boss == AppModel(<<"boss">>, << <<"run">>, <<"Idle">> >>)
prop == AppModel(<<"prop">>, << <<"jump">>, <<"run">> >>)
rock == AppModel(<<"rock">>, << >>)

\* the lists of models a load may return; the loader never returns an empty
\* list
ModelLists == { <<hero, boss, prop>>, <<prop, rock>>, <<rock>> }

\* the speed presets and the debug switches the user is followed clicking
TimeScales == {1, 2}

PanelKeys == {"bones"}

\* a.toLowerCase() on a whole name
LowerName(a) == [n \in DOMAIN a |-> ToLowerCase(a[n])]

\* lines 60-62 and 116-118
defaultAnim(model) ==
    IF Len(model.animations) > 0
    THEN LET hit == FirstHit([n \in DOMAIN model.animations |->
                        Includes(LowerName(model.animations[n]), <<"idle">>)])
         IN  IF hit # 0 THEN model.animations[hit] ELSE model.animations[1]
    ELSE <<>>

\* activeModel, line 46; Null when there is none
activeModel ==
    IF activeModelIndex + 1 \in DOMAIN appModels
    THEN appModels[activeModelIndex + 1] ELSE Null

\* no call of the loader is followed
NoLoaderCall ==
    /\ files = <<>>
    /\ pc = "idle"
    /\ decode = <<>>
    /\ loadedImages = <<>>
    /\ cur = 0
    /\ atlasFile = 0
    /\ resolved = <<>>
    /\ path = <<>>
    /\ foundData = 0
    /\ loadedModels = <<>>
    /\ errors = <<>>
    /\ result = <<>>
    /\ message = <<>>
    /\ reads = <<>>
    /\ outcome = <<>>

InitApp ==
    /\ NoLoaderCall
    /\ NoOverlay
    /\ NoOtherCall
    /\ NoApp

overlayVars == <<skeleton, graphics, time, stale>>

\* handleFilesLoaded up to its await; the drop zone is shown only while
\* there is no active model
handleFilesLoaded ==
    /\ activeModel = Null
    /\ inFlight < MaxLoads
    /\ isLoading' = TRUE
    /\ error' = FALSE
    /\ inFlight' = inFlight + 1
    /\ UNCHANGED <<loadVars, otherVars, debugVars, appModels, activeModelIndex,
                   modelStates, currentAnimation, timeScale, isLooping>>

\* variant: the index is kept when the models are replaced
LoadResolvedKeepsIndex(models) ==
    /\ inFlight > 0
    /\ appModels' = models
    /\ modelStates' = <<>>
    /\ IF Len(models) > 0
       THEN /\ currentAnimation' = defaultAnim(models[1])
            /\ timeScale' = 1
            /\ isLooping' = TRUE
            /\ debugConfig' = AllOff
            /\ ticked' = 0
       ELSE UNCHANGED <<currentAnimation, timeScale, isLooping, debugConfig,
                        ticked>>
    /\ isLoading' = FALSE
    /\ inFlight' = inFlight - 1
    /\ UNCHANGED <<loadVars, otherVars, overlayVars, error, activeModelIndex>>

\* the await of a handleFilesLoaded call resumes with the loader's models:
\* lines 53-72 and 81
LoadResolved(models) ==
    /\ inFlight > 0
    /\ appModels' = models
    /\ activeModelIndex' = 0
    /\ modelStates' = <<>>
    /\ IF Len(models) > 0
       THEN /\ currentAnimation' = defaultAnim(models[1])
            /\ timeScale' = 1
            /\ isLooping' = TRUE
            /\ debugConfig' = AllOff
            /\ ticked' = 0
       ELSE UNCHANGED <<currentAnimation, timeScale, isLooping, debugConfig,
                        ticked>>
    /\ isLoading' = FALSE
    /\ inFlight' = inFlight - 1
    /\ UNCHANGED <<loadVars, otherVars, overlayVars, error>>

\* the await of a handleFilesLoaded call throws: lines 74-81
LoadRejected ==
    /\ inFlight > 0
    /\ error' = TRUE
    /\ isLoading' = FALSE
    /\ inFlight' = inFlight - 1
    /\ UNCHANGED <<loadVars, otherVars, debugVars, appModels, activeModelIndex,
                   modelStates, currentAnimation, timeScale, isLooping>>

\* the ModelState saved for the model that is left, lines 91-96
currentState ==
    [animation |-> currentAnimation, timeScale |-> timeScale,
     isLooping |-> isLooping, debugConfig |-> debugConfig]

\* variant: the state of the model that is left is not saved
handleModelChangeForgets(newIndex) ==
    IF newIndex = activeModelIndex THEN UNCHANGED vars
    ELSE IF newIndex >= 0 /\ newIndex < Len(appModels)
    THEN LET updatedStates == modelStates
             nextModel == appModels[newIndex + 1]
         IN  /\ activeModelIndex' = newIndex
             /\ modelStates' = updatedStates
             /\ IF newIndex \in DOMAIN updatedStates
                THEN LET savedState == updatedStates[newIndex]
                     IN  /\ currentAnimation' = savedState.animation
                         /\ timeScale' = savedState.timeScale
                         /\ isLooping' = savedState.isLooping
                         /\ debugConfig' = savedState.debugConfig
                ELSE /\ currentAnimation' = defaultAnim(nextModel)
                     /\ timeScale' = 1
                     /\ isLooping' = TRUE
                     /\ debugConfig' = AllOff
             /\ ticked' = 0
             /\ UNCHANGED <<loadVars, otherVars, overlayVars, appModels,
                            isLoading, error, inFlight>>
    ELSE UNCHANGED vars

\* handleModelChange, lines 86-128
handleModelChange(newIndex) ==
    IF newIndex = activeModelIndex THEN UNCHANGED vars
    ELSE IF newIndex >= 0 /\ newIndex < Len(appModels)
    THEN LET updatedStates == (activeModelIndex :> currentState) @@ modelStates
             nextModel == appModels[newIndex + 1]
         IN  /\ activeModelIndex' = newIndex
             /\ modelStates' = updatedStates
             /\ IF newIndex \in DOMAIN updatedStates
                THEN LET savedState == updatedStates[newIndex]
                     IN  /\ currentAnimation' = savedState.animation
                         /\ timeScale' = savedState.timeScale
                         /\ isLooping' = savedState.isLooping
                         /\ debugConfig' = savedState.debugConfig
                ELSE /\ currentAnimation' = defaultAnim(nextModel)
                     /\ timeScale' = 1
                     /\ isLooping' = TRUE
                     /\ debugConfig' = AllOff
             /\ ticked' = 0
             /\ UNCHANGED <<loadVars, otherVars, overlayVars, appModels,
                            isLoading, error, inFlight>>
    ELSE UNCHANGED vars

\* handleClose, lines 134-138; the button is shown for an active model
handleClose ==
    /\ activeModel # Null
    /\ appModels' = <<>>
    /\ activeModelIndex' = 0
    /\ modelStates' = <<>>
    /\ UNCHANGED <<loadVars, otherVars, debugVars, currentAnimation, timeScale,
                   isLooping, isLoading, error, inFlight>>

\* a click on an animation of the active model: onAnimationChange
setCurrentAnimation(anim) ==
    /\ currentAnimation' = anim
    /\ UNCHANGED <<loadVars, otherVars, debugVars, appModels, activeModelIndex,
                   modelStates, timeScale, isLooping, isLoading, error,
                   inFlight>>

\* onTimeScaleChange
setTimeScale(scale) ==
    /\ timeScale' = scale
    /\ UNCHANGED <<loadVars, otherVars, debugVars, appModels, activeModelIndex,
                   modelStates, currentAnimation, isLooping, isLoading, error,
                   inFlight>>

\* onToggleLoop
onToggleLoop ==
    /\ isLooping' = ~isLooping
    /\ UNCHANGED <<loadVars, otherVars, debugVars, appModels, activeModelIndex,
                   modelStates, currentAnimation, timeScale, isLoading, error,
                   inFlight>>

\* the indexes a model-switch request may carry
Requests == (0 - 1)..Len(appModels)

NextApp ==
    \/ handleFilesLoaded
    \/ \E models \in ModelLists : LoadResolved(models)
    \/ LoadRejected
    \/ \E newIndex \in Requests : handleModelChange(newIndex)
    \/ handleClose
    \/ /\ activeModel # Null
       /\ \E a \in DOMAIN activeModel.animations :
             setCurrentAnimation(activeModel.animations[a])
    \/ \E scale \in TimeScales : setTimeScale(scale)
    \/ onToggleLoop
    \/ \E key \in PanelKeys : toggleDebug(key)

SpecApp == InitApp /\ [][NextApp]_vars

\* ------------------------------------------------- the resolver on its own
\* Pool keys and atlas paths the resolver is exercised on.
Keys ==
    << <<"images", "/", "head", ".", "png">>,
       <<"head", ".", "png">>,
       <<"head", ".", "png", "_", "old", ".", "png">>,
       <<"body", ".", "jpg">> >>

Paths ==
    { <<"head", ".", "png">>,
      <<"images", "/", "head", ".", "png">>,
      <<"images", "/", "body", ".", "jpg">>,
      <<"head">>,
      <<"tail", ".", "png">> }

\* every pool of at most MaxPool entries with distinct keys, in every order
Orders ==
    UNION { { o \in [1..n -> DOMAIN Keys] :
                \A x, y \in 1..n : x # y => o[x] # o[y] } : n \in 0..MaxPool }

Pools ==
    { [j \in DOMAIN o |->
          [name |-> Keys[o[j]], img |-> o[j], size |-> 100 + o[j]]] :
      o \in Orders }

InitResolve ==
    /\ files = <<>>
    /\ pc = "resolve"
    /\ decode = <<>>
    /\ loadedImages \in Pools
    /\ cur = 0
    /\ atlasFile = 0
    /\ resolved = <<>>
    /\ path \in Paths
    /\ foundData = 0
    /\ loadedModels = <<>>
    /\ errors = <<>>
    /\ result = <<>>
    /\ message = <<>>
    /\ reads = <<>>
    /\ outcome = <<>>
    /\ NoOverlay
    /\ NoOtherCall
    /\ NoApp

\* the two search loops of the texture-loader callback, lines 203-226
TextureLookup ==
    /\ pc = "resolve"
    /\ foundData' = Resolve(path, loadedImages)
    /\ pc' = "resolved"
    /\ UNCHANGED <<appVars, otherVars, debugVars, files, decode, loadedImages, cur, atlasFile, resolved, path,
                   loadedModels, errors, result, message, reads, outcome>>

NextResolve == TextureLookup

SpecResolve == InitResolve /\ [][NextResolve]_vars

\* -------------------------------------------------------------- properties
NoSkel == skelFiles(files) = <<>>
Settled == pc \in {"returned", "failed"}
Positions == Indexes(skelFiles(files))

\* positions of the skeleton files whose processing settled in one of `kinds`
PositionsWith(kinds) == SelectSeq(Positions, LAMBDA k : outcome[k] \in kinds)

\* e is the per-item error of the skeleton at position k
ErrorIsFor(e, k) ==
    LET pre == <<"loading model ">> \o baseName(SkelAt(k)) \o <<" failed: ">>
    IN  \/ e = NoAtlasError(SkelAt(k).name)
        \/ Len(e) > Len(pre) /\ SubSeq(e, 1, Len(pre)) = pre

\* C1: when the call settles on a batch with skeleton files, every skeleton
\* file has been processed whatever happened to the others: each one either
\* gave one model or is recorded as exactly one per-item error, in order.
C1_EveryItemProcessed ==
    (Settled /\ ~NoSkel) =>
        LET bad == PositionsWith({"noAtlas", "failed"})
            good == PositionsWith({"model"})
        IN  /\ \A k \in DOMAIN outcome : outcome[k] # "pending"
            /\ Len(loadedModels) = Len(good)
            /\ \A j \in 1..Len(good) :
                  loadedModels[j].spine = skelFiles(files)[good[j]]
            /\ Len(errors) = Len(bad)
            /\ \A j \in 1..Len(bad) : ErrorIsFor(errors[j], bad[j])

\* C1 witness: a failed assembly is followed by a successful one
C1_Witness ==
    /\ pc = "returned"
    /\ \E k, h \in DOMAIN outcome :
          k < h /\ outcome[k] = "failed" /\ outcome[h] = "model"

\* C2: with at least one successful assembly the call returns, and it
\* returns exactly the models of the successful skeleton files, one each, in
\* input order; nothing of the recorded errors is returned or thrown.
C2_PartialSuccess ==
    LET good == PositionsWith({"model"})
    IN  /\ (Settled /\ good # <<>>) => pc = "returned"
        /\ pc = "returned" =>
              /\ good # <<>>
              /\ message = <<>>
              /\ Len(result) = Len(good)
              /\ \A j \in 1..Len(good) :
                    /\ result[j].spine = skelFiles(files)[good[j]]
                    /\ result[j] = loadedModels[j]

\* C2 witness: one model is returned although the assembly of an earlier
\* skeleton file failed and its error was recorded
C2_Witness ==
    /\ pc = "returned"
    /\ Len(result) = 1
    /\ errors # <<>>
    /\ outcome[1] = "failed"

\* C3: without a skeleton file the call fails with the missing-skeleton
\* message at once: no decode is ever requested and no file is ever read.
C3_NoSkelFailsAtOnce ==
    NoSkel =>
        /\ pc \in {"idle", "failed"}
        /\ pc = "failed" => message = NoSkelMessage
        /\ \A i \in DOMAIN decode : decode[i] = "none"
        /\ loadedImages = <<>>
        /\ reads = <<>>

\* C3 witness: the call failed on an input holding an atlas and an image
C3_Witness ==
    /\ NoSkel
    /\ pc = "failed"
    /\ \E i, j \in DOMAIN files : IsAtlas(files[i]) /\ IsImage(files[j])

\* C4: the call never returns an empty list; when a batch with skeleton
\* files yields no model it fails with the recorded errors, one per
\* skeleton file, joined by newlines in processing order.
C4_AggregateFailure ==
    /\ pc = "returned" => result # <<>>
    /\ (Settled /\ ~NoSkel /\ PositionsWith({"model"}) = <<>>) =>
          /\ pc = "failed"
          /\ Len(errors) = Len(skelFiles(files))
          /\ message = Join(errors)
          /\ message # GenericMessage

\* C4 witness: a failure aggregating a pairing error and an assembly error
C4_Witness ==
    /\ pc = "failed"
    /\ \E k, h \in DOMAIN outcome :
          outcome[k] = "noAtlas" /\ outcome[h] = "failed"

\* C5: all decodes are requested before the call suspends at the barrier,
\* and no file is read (so no atlas is parsed) while a decode is unsettled.
C5_Barrier ==
    /\ pc = "preload" =>
          \A i \in DOMAIN files : IsImage(files[i]) => decode[i] # "none"
    /\ (reads # <<>> \/ pc \in {"readAtlas", "parseAtlas", "readSkel"}) =>
          \A i \in DOMAIN files :
              IsImage(files[i]) => decode[i] \in {"loaded", "failed"}

\* C5 witness: an atlas is being read after a late failure and a success
C5_Witness ==
    /\ pc = "readAtlas"
    /\ \E i, j \in DOMAIN files :
          i < j /\ decode[i] = "failed" /\ decode[j] = "loaded"

\* C6: a failed decode fails nothing by itself: the call cannot fail before
\* every decode settled and every skeleton was processed, the pool holds
\* exactly the names of the decoded files, and every recorded error belongs
\* to a skeleton file.
C6_DecodeFailureTolerated ==
    /\ pc = "preload" => errors = <<>> /\ message = <<>>
    /\ (pc = "failed" /\ ~NoSkel) =>
          /\ AllSettled(decode)
          /\ \A k \in DOMAIN outcome : outcome[k] # "pending"
    /\ (pc \notin {"idle", "preload"} /\ ~NoSkel) =>
          { loadedImages[j].name : j \in 1..Len(loadedImages) }
            = { files[i].name : i \in { h \in DOMAIN files : decode[h] = "loaded" } }
    /\ Len(errors) = Len(PositionsWith({"noAtlas", "failed"}))

\* C6 witness: a model is returned although one decode failed
C6_Witness ==
    /\ pc = "returned"
    /\ \E i, j \in DOMAIN files : decode[i] = "failed" /\ decode[j] = "loaded"

\* the three tests of the resolver, on one pool key
ExactMatch(name, p) == name = p
SuffixMatch(name, p) == EndsWith(name, p) \/ EndsWith(p, name)
SubstringMatch(name, p) == Includes(name, p)
KeyAt(j) == loadedImages[j].name

\* C7: a path equal to a pool key resolves to the entry stored under that
\* key, wherever the key stands in the pool.
C7_ExactTier ==
    (pc = "resolved" /\ \E j \in 1..Len(loadedImages) : KeyAt(j) = path) =>
        foundData # 0 /\ KeyAt(foundData) = path

\* C8: in the pool <<"images/head.png": A, "head.png": B>> the path
\* "head.png" resolves to A, the first entry.
C8_DocumentedTieBreak ==
    ( /\ pc = "resolved"
      /\ Len(loadedImages) = 2
      /\ KeyAt(1) = <<"images", "/", "head", ".", "png">>
      /\ KeyAt(2) = <<"head", ".", "png">>
      /\ path = <<"head", ".", "png">> ) =>
        foundData = 1 /\ loadedImages[foundData].img = 1

\* C8 witness: that pool and that path have been resolved
C8_Witness ==
    /\ pc = "resolved"
    /\ Len(loadedImages) = 2
    /\ KeyAt(1) = <<"images", "/", "head", ".", "png">>
    /\ KeyAt(2) = <<"head", ".", "png">>
    /\ path = <<"head", ".", "png">>
    /\ foundData # 0

\* C9: an entry whose key only contains the path is returned only when no
\* entry of the pool passes the exact or the suffix test.
C9_SubstringLastResort ==
    ( /\ pc = "resolved"
      /\ foundData # 0
      /\ SubstringMatch(KeyAt(foundData), path)
      /\ ~ExactMatch(KeyAt(foundData), path)
      /\ ~SuffixMatch(KeyAt(foundData), path) ) =>
        \A j \in 1..Len(loadedImages) :
            ~ExactMatch(KeyAt(j), path) /\ ~SuffixMatch(KeyAt(j), path)

\* C9 witness: a resolution decided by the substring test, in a pool of
\* several entries
C9_Witness ==
    /\ pc = "resolved"
    /\ foundData > 1
    /\ ~SuffixMatch(KeyAt(foundData), path)

\* C10: the returned entry is the first one, in pool order, among the
\* entries passing the test that decided the resolution.
C10_PoolOrderTieBreak ==
    (pc = "resolved" /\ foundData # 0) =>
        \A j \in 1..(foundData - 1) :
            IF ExactMatch(KeyAt(foundData), path)
            THEN ~ExactMatch(KeyAt(j), path)
            ELSE IF SuffixMatch(KeyAt(foundData), path)
            THEN ~SuffixMatch(KeyAt(j), path)
            ELSE ~SubstringMatch(KeyAt(j), path)

\* C10 witness: a later entry passes the deciding test too
C10_Witness ==
    /\ pc = "resolved"
    /\ foundData # 0
    /\ ~ExactMatch(KeyAt(foundData), path)
    /\ \E j \in (foundData + 1)..Len(loadedImages) :
          IF SuffixMatch(KeyAt(foundData), path)
          THEN SuffixMatch(KeyAt(j), path)
          ELSE SubstringMatch(KeyAt(j), path)

\* no key of the pool passes any of the three tests on p
NoKeyMatches(p, pool) ==
    \A j \in 1..Len(pool) :
        /\ ~ExactMatch(pool[j].name, p)
        /\ ~SuffixMatch(pool[j].name, p)
        /\ ~SubstringMatch(pool[j].name, p)

\* the page path the texture-loader callback is about to be called with
NextPage == files[atlasFile].file.pages[Len(resolved) + 1]

\* C11: when no pool key equals, ends with, is a suffix of or contains the
\* path of the page being loaded, the resolution finds nothing, the pair
\* yields no model and its texture-not-found error is recorded as the next
\* error; the call does not fail on it when a model was already assembled.
C11_TextureNotFound ==
    [][ ( /\ pc = "parseAtlas"
          /\ Len(resolved) < Len(files[atlasFile].file.pages)
          /\ NoKeyMatches(NextPage, loadedImages) ) =>
            /\ foundData' = 0
            /\ outcome'[cur] = "failed"
            /\ loadedModels' = loadedModels
            /\ Len(errors') > Len(errors)
            /\ errors'[Len(errors) + 1] =
                  LoadFailedError(baseName(SkelAt(cur)), TextureNotFound(NextPage))
            /\ pc' # "parseAtlas"
            /\ loadedModels # <<>> => pc' # "failed" ]_vars

\* C11 witness: the call returned a model although the last pair failed on
\* a path no pool key matches
C11_Witness ==
    /\ pc = "returned"
    /\ path # <<>>
    /\ foundData = 0
    /\ loadedImages # <<>>
    /\ NoKeyMatches(path, loadedImages)
    /\ \E k \in DOMAIN outcome : outcome[k] = "failed"

\* the barrier has been passed
PastBarrier == pc \notin {"idle", "preload"} /\ ~NoSkel

\* C12: the pool iterates in submission order: of two decoded files, the
\* entry of the one that comes first in the input comes first in the pool.
C12_SubmissionOrder ==
    \A j, h \in 1..Len(loadedImages) :
        j < h => loadedImages[j].img < loadedImages[h].img

\* a file name with its extension, the last "." and what follows, removed
Stripped(f) == SubSeq(f.name, 1, LastDot(f.name) - 1)

\* C13: a processed skeleton file is handed to the assembler exactly when
\* some atlas file has the same name once both extensions are stripped;
\* otherwise it is recorded as having no matching atlas.
C13_ExactBasePairing ==
    \A k \in DOMAIN outcome :
        outcome[k] # "pending" =>
            ( outcome[k] # "noAtlas"
              <=> \E i \in DOMAIN files :
                     IsAtlas(files[i]) /\ Stripped(files[i]) = Stripped(SkelAt(k)) )

\* C14: the name of every assembled model is the base name of its skeleton
\* file, the string its pairing used.
C14_ModelNameIsBaseName ==
    \A j \in 1..Len(loadedModels) :
        loadedModels[j].name = baseName(files[loadedModels[j].spine])

\* C15: past the barrier the pool has as many entries as there are raster
\* files whose decode succeeded.
C15_OneEntryPerDecodedFile ==
    PastBarrier =>
        Len(loadedImages) = Cardinality({ i \in DOMAIN files : decode[i] = "loaded" })

\* the atlas file the skeleton file at index i of files is paired with
AtlasOf(i) == files[findAtlas(files, baseName(files[i]))]

\* C16: the textureInfo of every assembled model has one entry per page of
\* its atlas, in page order, each with the page name and the byte size of
\* the file of the image backing the page.
C16_TextureInfoPerPage ==
    \A j \in 1..Len(loadedModels) :
        LET info == loadedModels[j].textureInfo
            pages == AtlasOf(loadedModels[j].spine).file.pages
        IN  /\ Len(info) = Len(pages)
            /\ \A q \in 1..Len(info) :
                  /\ info[q].name = pages[q]
                  /\ info[q].size = files[info[q].img].file.size

\* the message of the error a FileReader reports when a read fails
ReadFailure == <<"the file could not be read">>

\* C20: every error recorded for a failed assembly is made of the base name
\* of the item and of the message of the failure behind it: a texture that
\* was not found, a skeleton decode failure or a file read failure.
C20_ErrorCarriesCause ==
    LET bad == PositionsWith({"noAtlas", "failed"})
    IN  \A j \in 1..Len(errors) :
            (j <= Len(bad) /\ outcome[bad[j]] = "failed") =>
                \E cause \in { TextureNotFound(p) : p \in Paths }
                              \cup {DecodeFailure, ReadFailure} :
                    errors[j] = LoadFailedError(baseName(SkelAt(bad[j])), cause)

\* the toggle a colour of the overlay stands for
CategoryOf(color) ==
    CASE color = 65535 -> "bones"
      [] color = 16746496 -> "regions"
      [] color = 16776960 -> "meshHull"
      [] color = 16711935 -> "meshTriangles"
      [] color = 13369344 -> "clipping"
      [] color = 255 -> "paths"
      [] color = 65280 -> "boundingBoxes"
      [] OTHER -> "none"

\* the kind of item the shapes of a category are drawn for
KindOf(category) ==
    CASE category = "regions" -> "region"
      [] category \in {"meshHull", "meshTriangles"} -> "mesh"
      [] category = "clipping" -> "clipping"
      [] category = "paths" -> "path"
      [] category = "boundingBoxes" -> "boundingBox"
      [] OTHER -> "bone"

\* C17: after a tick taken with all seven toggles false the overlay holds
\* no primitive, whatever it held before.
C17_AllOffDrawsNothing ==
    /\ (ticked >= 1 /\ debugConfig = AllOff) => graphics = <<>>
    /\ renderDebug(skeleton, graphics, AllOff) = <<>>

C17_Witness ==
    /\ ticked >= 1
    /\ debugConfig = AllOff
    /\ stale
    /\ graphics = <<>>

\* C18: after a tick every primitive of the overlay belongs to a category
\* whose toggle is true and was drawn for an item of the kind of that
\* category: a bone for bone shapes, an attachment of the matching class for
\* the others.
C18_OnlyEnabledCategories ==
    ticked >= 1 =>
        \A n \in 1..Len(graphics) :
            LET g == graphics[n]
                category == CategoryOf(g.color)
            IN  /\ category \in Toggles
                /\ debugConfig[category]
                /\ IF category = "bones"
                   THEN g.item[1] = "bone" /\ g.item[2] \in DOMAIN skeleton.bones
                   ELSE /\ g.item[1] = "slot"
                        /\ g.item[2] \in DOMAIN skeleton.slots
                        /\ skeleton.slots[g.item[2]].attachment.kind
                              = KindOf(category)

\* only meshTriangles is set: wireframe triangles for each mesh, nothing for
\* the regions
C18_Witness ==
    /\ ticked >= 1
    /\ debugConfig = [AllOff EXCEPT !["meshTriangles"] = TRUE]
    /\ Len(graphics) = 3
    /\ \A n \in 1..Len(graphics) : graphics[n].color = 16711935

\* C19: a tick that follows a tick, with the pose and the toggles unchanged
\* in between, leaves the overlay as it was: same primitives, same order,
\* same vertices.
C19_Idempotent ==
    [][ (ticked >= 1 /\ ticked' > ticked) => graphics' = graphics ]_vars

C19_Witness ==
    /\ ticked = 2
    /\ Cardinality({ key \in Toggles : debugConfig[key] }) >= 2
    /\ graphics = renderDebug(skeleton, <<>>, debugConfig)
    /\ Len(graphics) > 3

\* an assembly (atlas read, page resolution, skeleton read and decode) is
\* under way
InFlight == pc \in {"readAtlas", "parseAtlas", "readSkel"}

\* C21: at most one assembly is in flight: while the assembly of a skeleton
\* file is under way every earlier skeleton file has settled with a model or
\* an error, and no file of a later skeleton file has been read.
C21_OneAssemblyInFlight ==
    /\ \A n \in DOMAIN reads :
          \E k \in DOMAIN outcome :
             /\ reads[n] \in {skelFiles(files)[k],
                               findAtlas(files, baseName(SkelAt(k)))}
             /\ k <= cur
             /\ \A j \in 1..(k - 1) : outcome[j] # "pending"
    /\ InFlight =>
          /\ cur \in DOMAIN outcome
          /\ \A j \in DOMAIN outcome :
                (j < cur => outcome[j] # "pending")
                /\ (j >= cur => outcome[j] = "pending")
          /\ Len(loadedModels) + Len(errors) = cur - 1

\* the second assembly under way after the first gave a model
C21_Witness ==
    /\ pc = "parseAtlas"
    /\ cur = 2
    /\ outcome[1] = "model"
    /\ Len(loadedModels) = 1

\* position in reads of the first read of file i, or 0
ReadAt(i) == FirstHit([n \in 1..Len(reads) |-> reads[n] = i])

\* the per-item error of position k records a texture that was not found
TextureErrorAt(k) ==
    \E n \in DOMAIN errors, p \in Paths :
        errors[n] = LoadFailedError(baseName(SkelAt(k)), TextureNotFound(p))

\* C22: the steps of an assembly follow the order atlas read, page
\* resolution, skeleton read and decode, model: a skeleton file is read only
\* after its atlas was read and every page of the atlas is resolved to a
\* decoded image of the pool, a model exists only for a skeleton file that
\* was read, and a pair with a page that fails to resolve has its skeleton
\* file never read and gives no model.
C22_AssemblyOrder ==
    /\ pc = "readSkel" =>
          /\ Len(resolved) = Len(files[atlasFile].file.pages)
          /\ \A q \in DOMAIN resolved :
                /\ decode[resolved[q]] = "loaded"
                /\ \E j \in DOMAIN loadedImages : loadedImages[j].img = resolved[q]
          /\ reads[Len(reads)] = skelFiles(files)[cur]
          /\ reads[Len(reads) - 1] = atlasFile
    /\ \A k \in DOMAIN outcome :
          LET skel == skelFiles(files)[k]
              atlas == findAtlas(files, baseName(SkelAt(k)))
          IN  /\ ReadAt(skel) # 0 =>
                    ReadAt(atlas) # 0 /\ ReadAt(atlas) < ReadAt(skel)
              /\ outcome[k] = "model" => ReadAt(skel) # 0
              /\ (outcome[k] = "failed" /\ TextureErrorAt(k)) =>
                    /\ ReadAt(skel) = 0
                    /\ \A n \in DOMAIN loadedModels : loadedModels[n].spine # skel

\* one pair assembled through all its steps, the next one stopped at a page
\* that does not resolve
C22_Witness ==
    /\ pc = "returned"
    /\ outcome = <<"model", "failed">>
    /\ TextureErrorAt(2)
    /\ Len(reads) = 3

\* a step of the ticker function: the only step that changes neither the
\* toggles nor the animation time
IsTick == debugConfig' = debugConfig /\ time' = time

\* C23: a tick leaves the pose as it was, bone for bone and slot for slot,
\* and what the overlay holds after it is what renderDebug draws for the
\* current pose and toggles on an empty overlay, whatever the overlay held
\* and whatever the pose and the toggles were on earlier ticks.
C23_NoStateNoSideEffect ==
    [][ IsTick =>
          /\ skeleton' = skeleton
          /\ graphics' = IF \E key \in Toggles : debugConfig[key]
                         THEN renderDebug(skeleton, <<>>, debugConfig)
                         ELSE <<>> ]_vars

\* a tick on a later pose and with other toggles than the tick that filled
\* the overlay
C23_Witness ==
    /\ ticked >= 1
    /\ time >= 1
    /\ stale
    /\ debugConfig = [AllOff EXCEPT !["paths"] = TRUE]
    /\ graphics = renderDebug(Pose(time), <<>>, debugConfig)
    /\ graphics # renderDebug(Pose(0), <<>>, debugConfig)

\* the primitives of the overlay drawn for bone b, in drawing order
ShapesOfBone(b) == SelectSeq(graphics, LAMBDA g : g.item = <<"bone", b>>)

\* a triangular body from the origin of the bone to its tip
IsBody(g, bone) ==
    /\ g.shape = "poly" /\ g.closed /\ g.fill /\ Len(g.points) = 3
    /\ g.points[2] = <<H(bone.worldX + bone.data.length * bone.a),
                       H(bone.worldY + bone.data.length * bone.c)>>
    /\ g.points[1][1] + g.points[3][1] = 2 * H(bone.worldX)
    /\ g.points[1][2] + g.points[3][2] = 2 * H(bone.worldY)

IsCircleAt(g, bone, radius) ==
    /\ g.shape = "circle"
    /\ g.points = << <<H(bone.worldX), H(bone.worldY)>> >>
    /\ g.radius = H(radius)

\* one stroke of an X centred on the origin of the bone
IsArm(g, bone) ==
    /\ g.shape = "poly" /\ ~g.closed /\ Len(g.points) = 2
    /\ g.points[1][1] + g.points[2][1] = 2 * H(bone.worldX)
    /\ g.points[1][2] + g.points[2][2] = 2 * H(bone.worldY)
    /\ g.points[1] # g.points[2]

\* C24: with the bones toggle set every bone is drawn as exactly one of two
\* shapes chosen by its length: a triangular body to the tip with a pivot
\* circle when the length is not zero, a circle with an X when it is zero.
C24_BoneShapeByLength ==
    (ticked >= 1 /\ debugConfig.bones) =>
        \A b \in DOMAIN skeleton.bones :
            LET bone == skeleton.bones[b]
                shapes == ShapesOfBone(b)
                body == \E n \in DOMAIN shapes : IsBody(shapes[n], bone)
                pivot == \E n \in DOMAIN shapes : IsCircleAt(shapes[n], bone, 3)
                ring == \E n \in DOMAIN shapes : IsCircleAt(shapes[n], bone, 5)
                arms == { n \in DOMAIN shapes : IsArm(shapes[n], bone) }
            IN  IF bone.data.length # 0
                THEN body /\ pivot /\ ~ring
                ELSE ring /\ Cardinality(arms) = 2 /\ ~body /\ ~pivot

\* the primitives of the overlay drawn for slot s in the given colour
ShapesOfSlot(s, color) ==
    SelectSeq(graphics, LAMBDA g : g.item = <<"slot", s>> /\ g.color = color)

\* vertex number v, counted from 0, of the computed vertices of slot s
VertexOf(s, v) ==
    LET bone == skeleton.bones[skeleton.slots[s].bone]
        own == skeleton.slots[s].attachment.vertices
    IN  <<H(own[2 * v + 1] + bone.worldX), H(own[2 * v + 2] + bone.worldY)>>

\* C25: for every slot with a mesh attachment, after a tick: with meshHull
\* set the hull outline runs over exactly the first hullLength computed
\* vertices and back to the first, and with meshTriangles set there is one
\* closed triangle per consecutive triple of the triangle-index list, with
\* its corners at the indexed computed vertices; neither output depends on
\* the other's toggle.
C25_MeshHullAndWireframe ==
    ticked >= 1 =>
        \A s \in DOMAIN skeleton.slots :
            skeleton.slots[s].attachment.kind = "mesh" =>
                LET mesh == skeleton.slots[s].attachment
                    hull == ShapesOfSlot(s, 16776960)
                    wire == ShapesOfSlot(s, 16711935)
                    n == mesh.hullLength
                IN  /\ IF debugConfig.meshHull /\ n > 0
                       THEN /\ Len(hull) = 1
                            /\ Len(hull[1].points) = n + 1
                            /\ \A v \in 1..n :
                                  hull[1].points[v] = VertexOf(s, v - 1)
                            /\ hull[1].points[n + 1] = VertexOf(s, 0)
                       ELSE hull = <<>>
                    /\ IF debugConfig.meshTriangles
                       THEN /\ Len(wire) * 3 = Len(mesh.triangles)
                            /\ \A t \in DOMAIN wire :
                                  wire[t].points =
                                    << VertexOf(s, mesh.triangles[3 * t - 2]),
                                       VertexOf(s, mesh.triangles[3 * t - 1]),
                                       VertexOf(s, mesh.triangles[3 * t]),
                                       VertexOf(s, mesh.triangles[3 * t - 2]) >>
                       ELSE wire = <<>>

\* the hull toggle alone, after an earlier drawing: a hull of three vertices
\* for the first mesh, none for the mesh whose hullLength is 0
C25_Witness ==
    /\ ticked >= 1
    /\ debugConfig.meshHull /\ ~debugConfig.meshTriangles
    /\ stale
    /\ Len(ShapesOfSlot(3, 16776960)) = 1
    /\ Len(ShapesOfSlot(3, 16776960)[1].points) = 4
    /\ ShapesOfSlot(4, 16776960) = <<>>

\* C26: when the loop over the skeleton files has ended, the models and the
\* errors together are as many as the skeleton files; so a call that fails
\* on a batch with a skeleton file has recorded an error, and its message is
\* not the generic one.
C26_Accounting ==
    (Settled /\ ~NoSkel) =>
        /\ Len(loadedModels) + Len(errors) = Len(skelFiles(files))
        /\ pc = "failed" =>
              /\ loadedModels = <<>>
              /\ errors # <<>>
              /\ message # GenericMessage

\* a settled batch of two skeleton files, one at least failed in assembly
C26_Witness ==
    /\ Settled
    /\ Len(skelFiles(files)) = 2
    /\ Len(errors) >= 1
    /\ Len(loadedModels) + Len(errors) = 2
    /\ \E k \in DOMAIN outcome : outcome[k] = "failed"

\* the assemblies that have settled: one model or one assembly error each
AssembliesSettled ==
    Len(loadedModels)
    + Len(SelectSeq(errors, LAMBDA e : e[1] = "loading model "))

\* C27: under the fairness of SpecLive every call settles, returning a
\* non-empty list of models or failing with a message, and every assembly
\* settles exactly once: the step that ends it records one model or one
\* error, and no other step records any.
C27_EventuallySettles ==
    /\ <>( \/ pc = "returned" /\ result # <<>>
           \/ pc = "failed" /\ message # <<>> )
    /\ [][ IF InFlight /\ cur' # cur
           THEN AssembliesSettled' = AssembliesSettled + 1
           ELSE AssembliesSettled' = AssembliesSettled ]_vars

\* a call that returned its one model although an image failed to decode
C27_Witness ==
    /\ pc = "returned"
    /\ \E i \in DOMAIN decode : decode[i] = "failed"
    /\ AssembliesSettled = 1
    /\ Len(result) = 1

\* every entry of the pool of the first call was decoded by the first
\* call, and the lookups of the first call gave such entries only
OwnImagesOnly ==
    /\ \A j \in DOMAIN loadedImages :
          LET e == loadedImages[j]
          IN  /\ e.img \in DOMAIN files
              /\ decode[e.img] = "loaded"
              /\ e.name = files[e.img].name
              /\ e.size = files[e.img].file.size
    /\ \A q \in DOMAIN resolved : resolved[q] \in DOMAIN files
    /\ \A n \in DOMAIN loadedModels :
          \A q \in DOMAIN loadedModels[n].textureInfo :
             loadedModels[n].textureInfo[q].img \in DOMAIN files
    /\ \A j \in DOMAIN otherImages :
          /\ otherImages[j].img < 0
          /\ otherDecode[0 - otherImages[j].img] = "loaded"

\* C28: with two calls overlapping in any interleaving, the pool of a call
\* holds only images that call decoded, so its texture resolution never
\* gives an image of the other call, and past the barrier of a call no step
\* adds, removes or replaces an entry of its pool.
C28_PoolScopedAndReadOnly ==
    [][ /\ OwnImagesOnly'
        /\ PastBarrier => loadedImages' = loadedImages
        /\ otherPc = "assembling" => otherImages' = otherImages ]_vars

\* the first call resolved a page to its own head.png while the pool of the
\* second call holds another head.png
C28_Witness ==
    /\ pc = "readSkel"
    /\ resolved # <<>>
    /\ \E j \in DOMAIN otherImages :
          otherImages[j].name = files[resolved[1]].name
    /\ otherPc = "preload"

\* activeModelIndex is 0 without models and an index of loadedModels else
ValidIndex ==
    IF appModels = <<>> THEN activeModelIndex = 0
    ELSE activeModelIndex \in 0..(Len(appModels) - 1)

\* C29: after every step of the application, whatever the order of load
\* completions, switches and closes, activeModelIndex is 0 when no model is
\* loaded and an index of loadedModels otherwise; a load that fails, and a
\* switch request to the current index or to an index out of range, leave
\* loadedModels, activeModelIndex and the saved states as they were.
C29_ActiveIndexValid ==
    [][ /\ ValidIndex'
        /\ LoadRejected =>
              UNCHANGED <<appModels, activeModelIndex, modelStates>>
        /\ \A newIndex \in Requests :
              ( /\ handleModelChange(newIndex)
                /\ \/ newIndex = activeModelIndex
                   \/ newIndex < 0
                   \/ newIndex >= Len(appModels) ) =>
                 UNCHANGED <<appModels, activeModelIndex, modelStates>> ]_vars

\* a load failed while the second of several models was active and a state
\* was saved: all of it is still there
C29_Witness ==
    /\ error
    /\ inFlight = 0
    /\ Len(appModels) = 3
    /\ activeModelIndex = 1
    /\ DOMAIN modelStates = {0}

\* what the user sees of the active model
View ==
    [animation |-> currentAnimation, timeScale |-> timeScale,
     isLooping |-> isLooping, debugConfig |-> debugConfig]

\* the view of a model on its first visit as the claim words it: the first
\* animation whose name contains "idle", else the first animation (nothing
\* is asked of a model without animations)
ClaimedDefaultView(model) ==
    [animation |->
        IF model.animations = <<>> THEN <<>>
        ELSE LET hit == FirstHit([n \in DOMAIN model.animations |->
                                    Includes(model.animations[n], <<"idle">>)])
             IN  IF hit # 0 THEN model.animations[hit] ELSE model.animations[1],
     timeScale |-> 1, isLooping |-> TRUE, debugConfig |-> AllOff]

\* the same with the name compared in lower case, and no animation at all
\* for a model that has none
DefaultView(model) ==
    [animation |->
        IF model.animations = <<>> THEN <<>>
        ELSE LET hit == FirstHit([n \in DOMAIN model.animations |->
                            Includes(LowerName(model.animations[n]), <<"idle">>)])
             IN  IF hit # 0 THEN model.animations[hit] ELSE model.animations[1],
     timeScale |-> 1, isLooping |-> TRUE, debugConfig |-> AllOff]

\* a step that takes the user from one model of the loaded list to another
IsSwitch ==
    /\ activeModelIndex' # activeModelIndex
    /\ inFlight' = inFlight
    /\ appModels' # <<>>

\* C30 as stated: a switch saves the view of the model that is left and
\* shows the saved view of the model that is entered, or on its first visit
\* the defaults with the first animation whose name contains "idle"; a
\* successful load discards the saved views.
C30_RoundTripAsStated ==
    [][ /\ IsSwitch =>
              LET i == activeModelIndex
                  j == activeModelIndex'
              IN  /\ j \in 0..(Len(appModels) - 1)
                  /\ appModels' = appModels
                  /\ modelStates' = [k \in DOMAIN modelStates \cup {i} |->
                                        IF k = i THEN View ELSE modelStates[k]]
                  /\ View' = IF j \in DOMAIN modelStates THEN modelStates[j]
                             ELSE ClaimedDefaultView(appModels[j + 1])
        /\ (\E models \in ModelLists : LoadResolved(models)) =>
              /\ modelStates' = <<>>
              /\ activeModelIndex' = 0
              /\ View' = ClaimedDefaultView(appModels'[1])
        /\ ( /\ ~IsSwitch
              /\ appModels' = appModels
              /\ ~(\E models \in ModelLists : LoadResolved(models)) ) =>
              modelStates' = modelStates ]_vars

\* C30, amended: as above, the default animation being the first one whose
\* lower-cased name contains "idle", else the first animation, and the
\* empty name for a model without animations. The view of a model is saved
\* when it is left, kept while other models are visited and edited, and
\* shown again when the model is entered: the round trip.
C30_ViewRoundTrip ==
    [][ /\ IsSwitch =>
              LET i == activeModelIndex
                  j == activeModelIndex'
              IN  /\ j \in 0..(Len(appModels) - 1)
                  /\ appModels' = appModels
                  /\ modelStates' = [k \in DOMAIN modelStates \cup {i} |->
                                        IF k = i THEN View ELSE modelStates[k]]
                  /\ View' = IF j \in DOMAIN modelStates THEN modelStates[j]
                             ELSE DefaultView(appModels[j + 1])
        /\ (\E models \in ModelLists : LoadResolved(models)) =>
              /\ modelStates' = <<>>
              /\ activeModelIndex' = 0
              /\ View' = DefaultView(appModels'[1])
        /\ ( /\ ~IsSwitch
              /\ appModels' = appModels
              /\ ~(\E models \in ModelLists : LoadResolved(models)) ) =>
              modelStates' = modelStates ]_vars

\* back on the first of three models after a visit to the two others: its
\* view is the one saved when it was left, which is not the default one
C30_Witness ==
    /\ Len(appModels) = 3
    /\ activeModelIndex = 0
    /\ DOMAIN modelStates = {0, 1, 2}
    /\ View = modelStates[0]
    /\ View # DefaultView(appModels[1])
    /\ modelStates[1].animation = <<"Idle">>

TypeOK ==
    /\ pc \in {"idle", "preload", "readAtlas", "parseAtlas", "readSkel",
               "returned", "failed", "resolve", "resolved"}
    /\ Len(loadedModels) + Len(errors) <= Len(skelFiles(files))
    /\ foundData \in 0..Len(loadedImages)
    /\ debugConfig \in [Toggles -> BOOLEAN]
    /\ time \in 0..MaxTime
    /\ ticked \in 0..MaxTicks
    /\ stale \in BOOLEAN
    /\ otherPc \in {"idle", "preload", "assembling", "failed"}
    /\ activeModelIndex \in 0..2
    /\ DOMAIN modelStates \subseteq 0..2
    /\ timeScale \in TimeScales
    /\ isLooping \in BOOLEAN
    /\ isLoading \in BOOLEAN
    /\ error \in BOOLEAN
    /\ inFlight \in 0..MaxLoads
====
